---- MODULE Spec2Model ----
(***************************************************************************)
(* Model of the configuration-driven renderers of vinicius.dev:            *)
(*   - blog.config.ts          the siteData record and project.getStatus   *)
(*   - components/social-list  SocialList and its icon table               *)
(*   - the home page (Home) and the layout shell (RootLayout)              *)
(* JavaScript values are tagged records, objects are ordered key/value     *)
(* lists, React elements are records of tag, key, props and children.      *)
(***************************************************************************)
EXTENDS Integers, Sequences, FiniteSets, TLC

\* siteData: the configuration; metadata: the layout's exported metadata;
\* rendered: the last call and what it returned; first: the first call an
\* observer recorded, kept to compare later calls with
VARIABLES siteData, metadata, rendered, first

vars == <<siteData, metadata, rendered, first>>

----------------------------------------------------------------------------
(* Bounds of the model *)

\* largest number of keys of a generated socials mapping
MaxSocials == 2

\* array-index keys are recognised up to this integer
MaxIndex == 12

\* largest number of keys of a generated socials mapping when calls are observed
MaxPureSocials == 1

\* largest number of posts of a generated collection
MaxPosts == 2

----------------------------------------------------------------------------
(* JavaScript values *)

Undefined == [type |-> "undefined"]

Null == [type |-> "null"]

Str(s) == [type |-> "string", val |-> s]

Bool(b) == [type |-> "boolean", val |-> b]

\* an object literal: its own enumerable properties, in the order written
Mapping(entries) == [type |-> "object", entries |-> entries]

\* an array
Array(items) == [type |-> "array", items |-> items]

Prop(k, v) == [key |-> k, value |-> v]

\* a React element
Element(tag, key, props, children) ==
    [type |-> "element", tag |-> tag, key |-> key, props |-> props, children |-> children]

\* a thrown exception, as the outcome of a call
Throw(name) == [type |-> "throw", error |-> name]

\* ToBoolean of a value, as used by `if (x)` and `!x`
TruthyDefinedOnly(v) == v.type \notin {"undefined", "null"}

Truthy(v) ==
    CASE v.type = "undefined" -> FALSE
      [] v.type = "null" -> FALSE
      [] v.type = "string" -> v.val # ""
      [] v.type = "boolean" -> v.val
      [] OTHER -> TRUE

\* o[k]: the value of the own property k, undefined when there is none
Get(o, k) ==
    IF \E i \in 1..Len(o.entries) : o.entries[i].key = k
    THEN o.entries[CHOOSE i \in 1..Len(o.entries) : o.entries[i].key = k].value
    ELSE Undefined

HasKey(o, k) == \E i \in 1..Len(o.entries) : o.entries[i].key = k

----------------------------------------------------------------------------
(* Object.keys: integer-index keys in ascending numeric order, then the    *)
(* other string keys in the order they were created; a TypeError for       *)
(* undefined and null.                                                     *)

Digit == <<"0", "1", "2", "3", "4", "5", "6", "7", "8", "9">>

RECURSIVE NumberToString(_)
NumberToString(n) ==
    IF n < 10 THEN Digit[n + 1]
    ELSE NumberToString(n \div 10) \o Digit[(n % 10) + 1]

\* a key is an array index when it is the canonical decimal form of an integer
IsArrayIndex(k) == \E n \in 0..MaxIndex : NumberToString(n) = k

ArrayIndex(k) == CHOOSE n \in 0..MaxIndex : NumberToString(n) = k

\* the keys of entries, in the order written
KeySeq(entries) == [i \in 1..Len(entries) |-> entries[i].key]

RECURSIVE SortIndexKeys(_)
SortIndexKeys(ks) ==
    IF ks = {} THEN <<>>
    ELSE LET least == CHOOSE k \in ks : \A j \in ks : ArrayIndex(k) <= ArrayIndex(j)
         IN <<least>> \o SortIndexKeys(ks \ {least})

ObjectKeysInsertionOnly(o) ==
    IF o.type \in {"undefined", "null"} THEN Throw("TypeError")
    ELSE Array(KeySeq(o.entries))

ObjectKeys(o) ==
    IF o.type \in {"undefined", "null"} THEN Throw("TypeError")
    ELSE LET ks == KeySeq(o.entries)
         IN Array(SortIndexKeys({ks[i] : i \in {j \in 1..Len(ks) : IsArrayIndex(ks[j])}})
                  \o SelectSeq(ks, LAMBDA k : ~IsArrayIndex(k)))

\* React renders neither undefined nor null children
RenderChildren(cs) == SelectSeq(cs, LAMBDA c : c.type \notin {"undefined", "null"})

----------------------------------------------------------------------------
(* blog.config.ts: the shipped configuration *)

ProjectEntry(name, status) == [name |-> name, status |-> Str(status)]

shippedSocials ==
    Mapping(<<Prop("email", Str("vinigurskiferraz@gmail.com")),
              Prop("github", Str("https://github.com/viniciusf-dev")),
              Prop("twitter", Str("")),
              Prop("linkedin", Str("https://www.linkedin.com/in/viniciusgferraz/")),
              Prop("facebook", Str("")),
              Prop("instagram", Str("")),
              Prop("youtube", Str(""))>>)

shippedProjects ==
    <<ProjectEntry("Nebulla", "active"),
      ProjectEntry("Why It Sucks", "active"),
      ProjectEntry("Poetries By Markov", "active"),
      ProjectEntry("Smart.Notes", "dev"),
      ProjectEntry("LangchainGPT", "filed"),
      ProjectEntry("MelodyMover", "dev"),
      ProjectEntry("AppKawa", "filed"),
      ProjectEntry("Decoding Gamer Emotions", "dev"),
      ProjectEntry("VegMaromba", "filed"),
      ProjectEntry("RentX", "filed"),
      ProjectEntry("RentX API", "filed"),
      ProjectEntry("GoFinance", "filed")>>

blogConfig ==
    [author |-> "Vinicius Gurski Ferraz",
     title |-> "Vinicius.Dev",
     description |-> "A minimalist blog created with Next.js ,Shadcn-ui and Tailwind.css to publish my articles and projects",
     theme |-> "dark",
     language |-> "en",
     home |-> [title |-> "Welcome to Vinicius.Dev", socials |-> shippedSocials],
     project |-> [title |-> "Look what I've done", projects |-> shippedProjects]]

\* the two earlier versions of the configuration file kept in the repository
olderSocials ==
    Mapping(<<Prop("email", Str("vinigurskiferraz@gmail.com")),
              Prop("github", Str("https://github.com/ViniciusTheCoder")),
              Prop("twitter", Str("")),
              Prop("linkedin", Str("https://www.linkedin.com/in/viniciusgferraz/")),
              Prop("facebook", Str("")),
              Prop("instagram", Str("")),
              Prop("youtube", Str(""))>>)

configPart001 ==
    [author |-> "Vinicius Gurski Ferraz",
     title |-> "Vinicius.Dev",
     description |-> "A minimalist blog created with Next.js ,Shadcn-ui and Tailwind.css to publish my articles and projects",
     theme |-> "light",
     language |-> "en",
     home |-> [title |-> "Welcome to Vinicius.Dev", socials |-> olderSocials],
     project |-> [title |-> "Look what I've done",
                  projects |-> <<ProjectEntry("LangchainGPT", "dev"),
                                 ProjectEntry("AppKawa", "dev"),
                                 ProjectEntry("Decoding Gamer Emotions", "offline"),
                                 ProjectEntry("VegMaromba", "active"),
                                 ProjectEntry("RentX", "filed"),
                                 ProjectEntry("RentX API", "filed"),
                                 ProjectEntry("GoFinance", "filed")>>]]

configPart002 ==
    [author |-> "Vinicius Gurski Ferraz",
     title |-> "Vinicius.Dev",
     description |-> "A minimalist blog created with Next.js ,Shadcn-ui and Tailwind.css to publish my articles and projects",
     theme |-> "light",
     language |-> "en",
     home |-> [title |-> "Welcome to Vinicius.Dev", socials |-> olderSocials],
     project |-> [title |-> "Look what I've done",
                  projects |-> <<ProjectEntry("LangchainGPT", "dev"),
                                 ProjectEntry("AppKawa", "dev")>>]]

ShippedConfigs == {blogConfig, configPart001, configPart002}

----------------------------------------------------------------------------
(* The configurations the renderers are exercised with: the shipped one,   *)
(* its two earlier versions, one with another title, description and      *)
(* language, one without home.socials, the one of the documented example,  *)
(* one with integer-like keys, and every socials literal of at most        *)
(* MaxSocials distinct keys over SocialKeys with values in SocialValues.   *)

SocialKeys == {"email", "github", "twitter", "7", "10"}

exampleSocials ==
    Mapping(<<Prop("email", Str("a@b.com")),
              Prop("github", Str("")),
              Prop("linkedin", Str("https://x"))>>)

indexedSocials ==
    Mapping(<<Prop("email", Str("a@b.com")),
              Prop("10", Str("https://x")),
              Prop("7", Str("https://x"))>>)

SocialValues == {Str(""), Str("a@b.com"), Str("https://x")}

Literals(n) ==
    {es \in [1..n -> [key : SocialKeys, value : SocialValues]] :
        \A i, j \in 1..n : i # j => es[i].key # es[j].key}

SocialsLiterals == UNION {Literals(n) : n \in 0..MaxSocials}

WithSocials(s) == [blogConfig EXCEPT !.home.socials = s]

\* the language comment of the configuration lists zh-CN | en
localizedConfig ==
    [blogConfig EXCEPT !.title = "Notes", !.description = "Short notes",
                       !.language = "zh-CN"]

Configs ==
    ShippedConfigs
        \cup {localizedConfig, WithSocials(Undefined), WithSocials(exampleSocials),
              WithSocials(indexedSocials)}
        \cup {WithSocials(Mapping(es)) : es \in SocialsLiterals}

PureConfigs ==
    ShippedConfigs
        \cup {localizedConfig, WithSocials(Undefined), WithSocials(exampleSocials),
              WithSocials(indexedSocials)}
        \cup {WithSocials(Mapping(es)) : es \in UNION {Literals(n) : n \in 0..MaxPureSocials}}

----------------------------------------------------------------------------
(* The observer: when it is switched on, it records the first call made    *)
(* and notes whether another call has been made since.                     *)

NoCall == [op |-> "none", arg |-> Undefined, result |-> Undefined]

Unobserved == [op |-> "unobserved", arg |-> Undefined, result |-> Undefined]

Observe ==
    first' = IF first = NoCall
             THEN [op |-> rendered'.op, arg |-> rendered'.arg,
                   result |-> rendered'.result, again |-> FALSE]
             ELSE IF first = Unobserved THEN first
             ELSE [first EXCEPT !.again = TRUE]

----------------------------------------------------------------------------
(* components/social-list.tsx *)

iconsWithTwitter ==
    Mapping(<<Prop("email", Element("Mail", Undefined, <<>>, <<>>)),
              Prop("github", Element("Github", Undefined, <<>>, <<>>)),
              Prop("linkedin", Element("Linkedin", Undefined, <<>>, <<>>)),
              Prop("twitter", Element("Twitter", Undefined, <<>>, <<>>))>>)

iconsNoGithub ==
    Mapping(<<Prop("email", Element("Mail", Undefined, <<>>, <<>>)),
              Prop("linkedin", Element("Linkedin", Undefined, <<>>, <<>>))>>)

icons ==
    Mapping(<<Prop("email", Element("Mail", Undefined, <<>>, <<>>)),
              Prop("github", Element("Github", Undefined, <<>>, <<>>)),
              Prop("linkedin", Element("Linkedin", Undefined, <<>>, <<>>))>>)

\* the <Link> of one entry: mailto: for the key email, the value itself otherwise
SocialLinkNoMailto(item, socials) ==
    Element("Link", Undefined, [href |-> Get(socials, item)],
            RenderChildren(<<Get(icons, item)>>))

SocialLink(item, socials) ==
    IF item = "email"
    THEN Element("Link", Undefined, [href |-> Str("mailto:" \o Get(socials, item).val)],
                 RenderChildren(<<Get(icons, item)>>))
    ELSE Element("Link", Undefined, [href |-> Get(socials, item)],
                 RenderChildren(<<Get(icons, item)>>))

SocialItemUnchecked(item, socials) ==
    Element("div", Str(item), [className |-> "hover:scale-110 duration-200"],
            <<SocialLink(item, socials)>>)

\* the callback of Object.keys(socials).map: an entry, or undefined
SocialItem(item, socials) ==
    IF Truthy(Get(socials, item))
    THEN Element("div", Str(item), [className |-> "hover:scale-110 duration-200"],
                 <<SocialLink(item, socials)>>)
    ELSE Undefined

\* the class names of the container: cn(base, {mt-8: !isFooter, scale-75: isFooter})
SocialListClass(isFooter) ==
    <<"flex", "items-center", "space-x-8">>
        \o (IF ~Truthy(isFooter) THEN <<"mt-8">> ELSE <<>>)
        \o (IF Truthy(isFooter) THEN <<"scale-75">> ELSE <<>>)

SocialListResultEmptyFooter(isFooter, config) ==
    LET socials == config.home.socials
        keys == ObjectKeys(socials)
    IN IF keys.type = "throw" THEN keys
       ELSE Element("div", Undefined, [className |-> SocialListClass(isFooter)],
                    IF Truthy(isFooter) THEN <<>>
                    ELSE RenderChildren([i \in 1..Len(keys.items) |->
                                            SocialItem(keys.items[i], socials)]))

\* what rendering <SocialList isFooter=.../> returns, or the exception it throws
SocialListResult(isFooter, config) ==
    LET socials == config.home.socials
        keys == ObjectKeys(socials)
    IN IF keys.type = "throw" THEN keys
       ELSE Element("div", Undefined, [className |-> SocialListClass(isFooter)],
                    RenderChildren([i \in 1..Len(keys.items) |-> SocialItem(keys.items[i], socials)]))

IsFooterValues == {Undefined, Bool(TRUE), Bool(FALSE)}

SocialListPruning(isFooter) ==
    /\ rendered' = [op |-> "SocialList", arg |-> isFooter,
                    result |-> SocialListResult(isFooter, siteData)]
    /\ siteData' =
          IF siteData.home.socials.type = "object"
          THEN [siteData EXCEPT !.home.socials.entries =
                    SelectSeq(@, LAMBDA e : Truthy(e.value))]
          ELSE siteData
    /\ Observe
    /\ UNCHANGED metadata

SocialList(isFooter) ==
    /\ rendered' = [op |-> "SocialList", arg |-> isFooter,
                    result |-> SocialListResult(isFooter, siteData)]
    /\ Observe
    /\ UNCHANGED <<siteData, metadata>>

----------------------------------------------------------------------------
(* the home page *)

Home_icons ==
    Mapping(<<Prop("email", Element("Mail", Undefined, <<>>, <<>>)),
              Prop("linkedin", Element("Linkedin", Undefined, <<>>, <<>>))>>)

\* the callback of Object.keys(socials).map in Home: an empty div, or undefined
HomeItem(item, socials) ==
    IF Truthy(Get(socials, item))
    THEN Element("div", Undefined, <<>>, <<>>)
    ELSE Undefined

HomeResult(config) ==
    LET socials == config.home.socials
        keys == ObjectKeys(socials)
    IN IF keys.type = "throw" THEN keys
       ELSE Element("Fragment", Undefined, <<>>,
              <<Element("Title", Undefined,
                        [title |-> Str(config.home.title), description |-> Undefined], <<>>),
                Element("Intro", Undefined, <<>>, <<>>),
                Element("div", Undefined, [className |-> "mt-8 flex items-center space-x-4"],
                        RenderChildren([i \in 1..Len(keys.items) |-> HomeItem(keys.items[i], socials)]))>>)

Home ==
    /\ rendered' = [op |-> "Home", arg |-> Undefined, result |-> HomeResult(siteData)]
    /\ Observe
    /\ UNCHANGED <<siteData, metadata>>

----------------------------------------------------------------------------
(* blog.config.ts: siteData.project.getStatus *)

StatusBadge(variant, text) ==
    Mapping(<<Prop("variant", Str(variant)), Prop("text", Str(text))>>)

getStatusSwapped(status) ==
    IF ~Truthy(status) THEN Mapping(<<>>)
    ELSE CASE status = Str("active") -> StatusBadge("default", "ACTIVE")
           [] status = Str("dev") -> StatusBadge("outline", "DEV")
           [] status = Str("filed") -> StatusBadge("secondary", "FILED")
           [] status = Str("offline") -> StatusBadge("destructive", "OFFLINE")
           [] OTHER -> Undefined

getStatusUnguarded(status) ==
    CASE status = Str("active") -> StatusBadge("default", "ACTIVE")
      [] status = Str("dev") -> StatusBadge("secondary", "DEV")
      [] status = Str("filed") -> StatusBadge("outline", "FILED")
      [] status = Str("offline") -> StatusBadge("destructive", "OFFLINE")
      [] OTHER -> Undefined

getStatusVariantOnly(status) ==
    IF ~Truthy(status) THEN Mapping(<<>>)
    ELSE CASE status = Str("active") -> StatusBadge("default", "ACTIVE")
           [] status = Str("dev") -> StatusBadge("secondary", "DEV")
           [] status = Str("filed") -> StatusBadge("outline", "FILED")
           [] status = Str("offline") -> Mapping(<<Prop("variant", Str("destructive"))>>)
           [] OTHER -> Undefined

getStatusSameVariant(status) ==
    IF ~Truthy(status) THEN Mapping(<<>>)
    ELSE CASE status = Str("active") -> StatusBadge("default", "ACTIVE")
           [] status = Str("dev") -> StatusBadge("secondary", "DEV")
           [] status = Str("filed") -> StatusBadge("secondary", "FILED")
           [] status = Str("offline") -> StatusBadge("destructive", "OFFLINE")
           [] OTHER -> Undefined

getStatusNoFiled(status) ==
    IF ~Truthy(status) THEN Mapping(<<>>)
    ELSE CASE status = Str("active") -> StatusBadge("default", "ACTIVE")
           [] status = Str("dev") -> StatusBadge("secondary", "DEV")
           [] status = Str("offline") -> StatusBadge("destructive", "OFFLINE")
           [] OTHER -> Undefined

\* no case of the switch matches an unlisted status: the function falls off
\* its end and returns undefined
getStatus(status) ==
    IF ~Truthy(status) THEN Mapping(<<>>)
    ELSE CASE status = Str("active") -> StatusBadge("default", "ACTIVE")
           [] status = Str("dev") -> StatusBadge("secondary", "DEV")
           [] status = Str("filed") -> StatusBadge("outline", "FILED")
           [] status = Str("offline") -> StatusBadge("destructive", "OFFLINE")
           [] OTHER -> Undefined

\* getStatus as written in the two earlier versions of the configuration file
getStatusPart001(status) ==
    IF ~Truthy(status) THEN Mapping(<<>>)
    ELSE CASE status = Str("active") ->
                Mapping(<<Prop("variant", Str("default")), Prop("text", Str("ACTIVE"))>>)
           [] status = Str("dev") ->
                Mapping(<<Prop("variant", Str("secondary")), Prop("text", Str("DEV"))>>)
           [] status = Str("filed") ->
                Mapping(<<Prop("variant", Str("outline")), Prop("text", Str("FILED"))>>)
           [] status = Str("offline") ->
                Mapping(<<Prop("variant", Str("destructive")), Prop("text", Str("OFFLINE"))>>)
           [] OTHER -> Undefined

getStatusPart002NoGuard(status) ==
    CASE status = Str("active") ->
            Mapping(<<Prop("variant", Str("default")), Prop("text", Str("ACTIVE"))>>)
      [] status = Str("dev") ->
            Mapping(<<Prop("variant", Str("secondary")), Prop("text", Str("DEV"))>>)
      [] status = Str("filed") ->
            Mapping(<<Prop("variant", Str("outline")), Prop("text", Str("FILED"))>>)
      [] status = Str("offline") ->
            Mapping(<<Prop("variant", Str("destructive")), Prop("text", Str("OFFLINE"))>>)
      [] OTHER -> Undefined

getStatusPart002(status) ==
    IF ~Truthy(status) THEN Mapping(<<>>)
    ELSE CASE status = Str("active") ->
                Mapping(<<Prop("variant", Str("default")), Prop("text", Str("ACTIVE"))>>)
           [] status = Str("dev") ->
                Mapping(<<Prop("variant", Str("secondary")), Prop("text", Str("DEV"))>>)
           [] status = Str("filed") ->
                Mapping(<<Prop("variant", Str("outline")), Prop("text", Str("FILED"))>>)
           [] status = Str("offline") ->
                Mapping(<<Prop("variant", Str("destructive")), Prop("text", Str("OFFLINE"))>>)
           [] OTHER -> Undefined

\* config.project.getStatus(status): the function of the version that is loaded
getStatusOf(config, status) ==
    IF config = configPart001 THEN getStatusPart001(status)
    ELSE IF config = configPart002 THEN getStatusPart002(status)
    ELSE getStatus(status)

StatusInputs ==
    {Undefined, Null, Str(""), Str("active"), Str("dev"), Str("filed"), Str("offline"),
     Str("none"), Str("ACTIVE")}

CallGetStatusStaleCache(status) ==
    /\ rendered' = [op |-> "getStatus", arg |-> status,
                    result |-> IF rendered.op = "getStatus" THEN rendered.result
                               ELSE getStatusOf(siteData, status)]
    /\ Observe
    /\ UNCHANGED <<siteData, metadata>>

CallGetStatus(status) ==
    /\ rendered' = [op |-> "getStatus", arg |-> status,
                    result |-> getStatusOf(siteData, status)]
    /\ Observe
    /\ UNCHANGED <<siteData, metadata>>

----------------------------------------------------------------------------
(* app/layout.tsx *)

Leaf(tag) == Element(tag, Undefined, <<>>, <<>>)

LayoutMetadataFromHome(config) ==
    [title |-> config.home.title, description |-> config.description]

\* export const metadata, evaluated once when the module is loaded
LayoutMetadata(config) == [title |-> config.title, description |-> config.description]

RootLayoutResultContentLast(children) ==
    Element("html", Undefined, [lang |-> "en"],
      <<Element("body", Undefined, [className |-> "min-h-screen font-mono"],
          <<Element("ProviderTheme", Undefined, <<>>,
              <<Leaf("Header"),
                Leaf("Separator"),
                Leaf("Footer"),
                Element("main", Undefined, [className |-> "container my-12"],
                  <<Element("div", Undefined,
                            [className |-> "prose md:prose-lg min-w-full w-full dark:prose-invert"],
                            RenderChildren(<<children, Leaf("Analytics")>>))>>),
                Leaf("BackToTop")>>)>>)>>)

RootLayoutResult(children) ==
    Element("html", Undefined, [lang |-> "en"],
      <<Element("body", Undefined, [className |-> "min-h-screen font-mono"],
          <<Element("ProviderTheme", Undefined, <<>>,
              <<Leaf("Header"),
                Leaf("Separator"),
                Element("main", Undefined, [className |-> "container my-12"],
                  <<Element("div", Undefined,
                            [className |-> "prose md:prose-lg min-w-full w-full dark:prose-invert"],
                            RenderChildren(<<children, Leaf("Analytics")>>))>>),
                Leaf("Footer"),
                Leaf("BackToTop")>>)>>)>>)

PageContents == {Leaf("BlogPage"), Leaf("ProjectPage")}

RootLayout(children) ==
    /\ rendered' = [op |-> "RootLayout", arg |-> children,
                    result |-> RootLayoutResult(children)]
    /\ Observe
    /\ UNCHANGED <<siteData, metadata>>

----------------------------------------------------------------------------
(* posts: the front-matter of the content documents and the published      *)
(* listing built from them                                                 *)

Post(slug, draft) == [slug |-> slug, draft |-> draft]

shippedPosts ==
    <<Post("context-caching", Bool(FALSE)),
      Post("python-concurrency", Bool(FALSE)),
      Post("rost-for-llms", Bool(FALSE)),
      Post("uncovering-the-needle", Bool(FALSE))>>

PostSlugs == {shippedPosts[i].slug : i \in 1..Len(shippedPosts)}

\* the draft flag of a front-matter: true, false, or absent
DraftValues == {Bool(TRUE), Bool(FALSE), Undefined}

PostCollections ==
    {shippedPosts}
        \cup UNION {{ps \in [1..n -> [slug : PostSlugs, draft : DraftValues]] :
                        \A i, j \in 1..n : i # j => ps[i].slug # ps[j].slug}
                    : n \in 0..MaxPosts}

\* the published listing: every post but those whose draft flag is true
PublishedPostsOnlyExplicit(posts) == SelectSeq(posts, LAMBDA post : post.draft = Bool(FALSE))

PublishedPosts(posts) == SelectSeq(posts, LAMBDA post : post.draft # Bool(TRUE))

ListPublished(posts) ==
    /\ rendered' = [op |-> "listPublished", arg |-> posts, result |-> PublishedPosts(posts)]
    /\ Observe
    /\ UNCHANGED <<siteData, metadata>>

----------------------------------------------------------------------------
(* The state machine: the configuration is constructed once, then the      *)
(* renderers and the badge mapper are called in any order.                 *)

Init ==
    /\ siteData \in Configs
    /\ metadata = LayoutMetadata(siteData)
    /\ rendered = NoCall
    /\ first = Unobserved

\* the same machine on fewer configurations, with the observer switched on
InitPure ==
    /\ siteData \in PureConfigs
    /\ metadata = LayoutMetadata(siteData)
    /\ rendered = NoCall
    /\ first = NoCall

Next ==
    \/ \E isFooter \in IsFooterValues : SocialList(isFooter)
    \/ Home
    \/ \E status \in StatusInputs : CallGetStatus(status)
    \/ \E children \in PageContents : RootLayout(children)

Spec == Init /\ [][Next]_vars

SpecPure == InitPure /\ [][Next]_vars

\* the listing of the posts, under the shipped configuration
InitPosts ==
    /\ siteData = blogConfig
    /\ metadata = LayoutMetadata(siteData)
    /\ rendered = NoCall
    /\ first = Unobserved

NextPosts == \E posts \in PostCollections : ListPublished(posts)

SpecPosts == InitPosts /\ [][NextPosts]_vars

----------------------------------------------------------------------------
(* Vocabulary of the properties *)

PlatformKeys == {"email", "github", "linkedin", "twitter", "facebook", "instagram", "youtube"}

AllSocialKeys == SocialKeys \cup PlatformKeys

StatusEnum == {"active", "dev", "filed", "offline"}

\* the socials mapping of the configuration, when there is one
HasSocials == siteData.home.socials.type = "object"

\* key k is present in the socials mapping with a non-empty value
Populated(k) ==
    \E i \in 1..Len(siteData.home.socials.entries) :
        /\ siteData.home.socials.entries[i].key = k
        /\ siteData.home.socials.entries[i].value.type = "string"
        /\ siteData.home.socials.entries[i].value.val # ""

\* the position of key k in the socials literal
LiteralPos(k) ==
    CHOOSE i \in 1..Len(siteData.home.socials.entries) :
        siteData.home.socials.entries[i].key = k

SocialListDone == rendered.op = "SocialList" /\ HasSocials

\* the entries of the rendered social list and the positions of those for key k
Entries == rendered.result.children

EntriesOf(k) == {i \in 1..Len(Entries) : Entries[i].key = Str(k)}

EntryPos(k) == CHOOSE i \in 1..Len(Entries) : Entries[i].key = Str(k)

\* the link target and the icons of the entry at position i
HrefAt(i) == Entries[i].children[1].props.href

IconsAt(i) == Entries[i].children[1].children

\* the divs Home renders for the socials
HomeDivs == rendered.result.children[3].children

----------------------------------------------------------------------------
\* C1: the list rendered by SocialList (and the row of divs rendered by Home)
\* has exactly one entry for each key with a non-empty value and none for a
\* key whose value is empty or that is absent, so the number of entries is
\* the number of keys with a non-empty value.
C1_OneEntryPerPopulatedKey ==
    /\ SocialListDone =>
          /\ rendered.result.type = "element"
          /\ \A k \in AllSocialKeys :
                Cardinality(EntriesOf(k)) = IF Populated(k) THEN 1 ELSE 0
          /\ Len(Entries) = Cardinality({k \in AllSocialKeys : Populated(k)})
    /\ (rendered.op = "Home" /\ HasSocials) =>
          Len(HomeDivs) = Cardinality({k \in AllSocialKeys : Populated(k)})

C1_Witness ==
    /\ SocialListDone
    /\ Populated("github")
    /\ HasKey(siteData.home.socials, "email") /\ ~Populated("email")
    /\ ~HasKey(siteData.home.socials, "twitter")
    /\ Len(Entries) = 1
    /\ Entries[1].key = Str("github")

\* C2: the entry for the key email links to mailto: followed by the
\* configured value, and the entry for every other populated key links to
\* exactly the configured value.
C2_MailtoForEmailOnly ==
    SocialListDone =>
        /\ \A i \in 1..Len(Entries) :
              IF Entries[i].key = Str("email")
              THEN HrefAt(i) = Str("mailto:" \o Get(siteData.home.socials, "email").val)
              ELSE HrefAt(i) = Get(siteData.home.socials, Entries[i].key.val)
        /\ Get(siteData.home.socials, "email") = Str("a@b.com") =>
              HrefAt(EntryPos("email")) = Str("mailto:a@b.com")
        /\ Get(siteData.home.socials, "email") = Str("https://x") =>
              HrefAt(EntryPos("email")) = Str("mailto:https://x")

C2_Witness ==
    /\ SocialListDone
    /\ Populated("email") /\ Populated("github")
    /\ HrefAt(EntryPos("email")) = Str("mailto:a@b.com")
    /\ HrefAt(EntryPos("github")) = Str("https://x")

\* C3: getStatus maps active to (default, ACTIVE), dev to (secondary, DEV),
\* filed to (outline, FILED) and offline to (destructive, OFFLINE).
C3_DocumentedBadges ==
    rendered.op = "getStatus" =>
        LET Is(variant, text) ==
                /\ rendered.result.type = "object"
                /\ Len(rendered.result.entries) = 2
                /\ Get(rendered.result, "variant") = Str(variant)
                /\ Get(rendered.result, "text") = Str(text)
        IN /\ rendered.arg = Str("active") => Is("default", "ACTIVE")
           /\ rendered.arg = Str("dev") => Is("secondary", "DEV")
           /\ rendered.arg = Str("filed") => Is("outline", "FILED")
           /\ rendered.arg = Str("offline") => Is("destructive", "OFFLINE")

C3_Witness ==
    /\ rendered.op = "getStatus"
    /\ rendered.arg = Str("dev")
    /\ Get(rendered.result, "variant") = Str("secondary")
    /\ Get(rendered.result, "text") = Str("DEV")

\* C4 (as claimed): for a non-empty status string outside the enum,
\* getStatus returns an empty object.
C4_UnrecognizedGivesEmptyObject ==
    (/\ rendered.op = "getStatus"
     /\ rendered.arg.type = "string"
     /\ rendered.arg.val # ""
     /\ rendered.arg.val \notin StatusEnum)
        => rendered.result = Mapping(<<>>)

\* C5: for an absent status (undefined, null or the empty string) getStatus
\* returns an empty object, with neither a variant nor a text field, and
\* does not throw.
C5_AbsentGivesEmptyObject ==
    (rendered.op = "getStatus" /\ rendered.arg \in {Undefined, Null, Str("")}) =>
        /\ rendered.result.type = "object"
        /\ rendered.result.entries = <<>>
        /\ ~HasKey(rendered.result, "variant")
        /\ ~HasKey(rendered.result, "text")

C5_Witness ==
    /\ rendered.op = "getStatus"
    /\ rendered.arg = Null
    /\ rendered.result = Mapping(<<>>)

\* the keys of the rendered entries, in rendered order
RenderedKeys == [i \in 1..Len(Entries) |-> Entries[i].key.val]

\* C6 (as claimed): of any two populated keys, the one written earlier in
\* the socials literal is rendered earlier.
C6_InsertionOrder ==
    SocialListDone =>
        \A a, b \in AllSocialKeys :
            (Populated(a) /\ Populated(b) /\ LiteralPos(a) < LiteralPos(b))
                => EntryPos(a) < EntryPos(b)

\* C6 (amended): the entries appear in the order of Object.keys: populated
\* keys that are array indices first, in ascending numeric order, then the
\* other populated keys in the order written in the literal; the documented
\* example renders exactly the mailto link for email, then the linkedin link.
C6_ObjectKeysOrder ==
    SocialListDone =>
        /\ \A a, b \in AllSocialKeys :
              (Populated(a) /\ Populated(b)) =>
                  /\ (~IsArrayIndex(a) /\ ~IsArrayIndex(b) /\ LiteralPos(a) < LiteralPos(b))
                        => EntryPos(a) < EntryPos(b)
                  /\ (IsArrayIndex(a) /\ ~IsArrayIndex(b)) => EntryPos(a) < EntryPos(b)
                  /\ (IsArrayIndex(a) /\ IsArrayIndex(b) /\ ArrayIndex(a) < ArrayIndex(b))
                        => EntryPos(a) < EntryPos(b)
        /\ siteData.home.socials = exampleSocials =>
              /\ RenderedKeys = <<"email", "linkedin">>
              /\ HrefAt(1) = Str("mailto:a@b.com")
              /\ HrefAt(2) = Str("https://x")

C6_Witness ==
    /\ SocialListDone
    /\ siteData.home.socials = indexedSocials
    /\ RenderedKeys = <<"7", "10", "email">>

\* C7: no rendering operation changes the configuration: it keeps the value
\* it was constructed with.
C7_ConfigImmutable == [][siteData' = siteData]_vars

C7_Witness ==
    /\ rendered.op = "SocialList"
    /\ rendered.result.type = "element"
    /\ siteData = blogConfig
    /\ metadata = LayoutMetadata(siteData)

\* C8 (as claimed): with home.socials absent, rendering completes without an
\* error and renders no icons.
C8_AbsentSocialsTolerated ==
    (rendered.op \in {"SocialList", "Home"} /\ siteData.home.socials = Undefined) =>
        /\ rendered.result.type = "element"
        /\ rendered.op = "SocialList" => Entries = <<>>
        /\ rendered.op = "Home" => HomeDivs = <<>>

\* C9 (as claimed): under the shipped configuration, every key for which a
\* component renders an entry is a key of that component's icon table.
C9_PopulatedKeysHaveIcons ==
    siteData = blogConfig =>
        /\ rendered.op = "SocialList" =>
              \A i \in 1..Len(Entries) : HasKey(icons, Entries[i].key.val)
        /\ rendered.op = "Home" =>
              /\ Len(HomeDivs) = Cardinality({k \in AllSocialKeys : Populated(k)})
              /\ \A k \in AllSocialKeys : Populated(k) => HasKey(Home_icons, k)

\* C10: a populated key without an icon mapping (any key other than email,
\* github and linkedin) is rendered as exactly one entry whose link goes to
\* the configured value and contains no icon; rendering does not throw.
C10_NoIconStillLinked ==
    SocialListDone =>
        /\ rendered.result.type = "element"
        /\ \A k \in AllSocialKeys \ {"email", "github", "linkedin"} :
              Populated(k) =>
                  /\ Cardinality(EntriesOf(k)) = 1
                  /\ Entries[EntryPos(k)].children[1].tag = "Link"
                  /\ HrefAt(EntryPos(k)) = Get(siteData.home.socials, k)
                  /\ IconsAt(EntryPos(k)) = <<>>

C10_Witness ==
    /\ SocialListDone
    /\ Populated("twitter") /\ Populated("github")
    /\ HrefAt(EntryPos("twitter")) = Str("https://x")
    /\ IconsAt(EntryPos("twitter")) = <<>>
    /\ IconsAt(EntryPos("github")) # <<>>

\* the keys of an object
KeysOf(o) == {o.entries[i].key : i \in 1..Len(o.entries)}

SlugCount(posts, slug) == Cardinality({i \in 1..Len(posts) : posts[i].slug = slug})

\* C12: a post whose draft flag is true is in no published listing, and a
\* post whose draft flag is false or absent is in it (once, as written).
C12_DraftsExcluded ==
    rendered.op = "listPublished" =>
        \A i \in 1..Len(rendered.arg) :
            LET post == rendered.arg[i]
            IN /\ post.draft = Bool(TRUE) => SlugCount(rendered.result, post.slug) = 0
               /\ post.draft \in {Bool(FALSE), Undefined} =>
                     /\ SlugCount(rendered.result, post.slug) = 1
                     /\ \E j \in 1..Len(rendered.result) : rendered.result[j] = post

C12_Witness ==
    /\ rendered.op = "listPublished"
    /\ Len(rendered.arg) = 2
    /\ rendered.arg[1].draft = Bool(TRUE)
    /\ rendered.arg[2].draft = Undefined
    /\ rendered.result = <<rendered.arg[2]>>

\* a value is a badge: an object with a non-empty variant and a non-empty text
IsBadge(v) ==
    /\ v.type = "object"
    /\ HasKey(v, "variant") /\ Truthy(Get(v, "variant"))
    /\ HasKey(v, "text") /\ Truthy(Get(v, "text"))

\* C13: every project of the configuration file (in each of its versions)
\* has a status among active, dev, filed, offline, and getStatus returns a
\* non-empty (variant, text) badge for it.
C13_ProjectsHaveBadges ==
    /\ \A i \in 1..Len(siteData.project.projects) :
          /\ siteData.project.projects[i].status.type = "string"
          /\ siteData.project.projects[i].status.val \in StatusEnum
          /\ IsBadge(getStatus(siteData.project.projects[i].status))
    /\ (/\ rendered.op = "getStatus"
        /\ \E i \in 1..Len(siteData.project.projects) :
              siteData.project.projects[i].status = rendered.arg)
          => IsBadge(rendered.result)

C13_Witness ==
    /\ siteData = configPart001
    /\ rendered.op = "getStatus"
    /\ rendered.arg = siteData.project.projects[3].status
    /\ rendered.arg = Str("offline")
    /\ Get(rendered.result, "text") = Str("OFFLINE")

\* the observer has recorded a call of op, and the last call is a later call
\* of op
BothCalls(op) == first.op = op /\ first.again /\ rendered.op = op

C16_IsFooterOnlyStyles ==
    BothCalls("SocialList") =>
        /\ rendered.result.type = first.result.type
        /\ rendered.result.type = "element" =>
              /\ rendered.result.children = first.result.children
              /\ rendered.result =
                    [first.result EXCEPT !.props.className = rendered.result.props.className]
              /\ Truthy(rendered.arg) = Truthy(first.arg) =>
                    rendered.result.props.className = first.result.props.className

C16_Witness ==
    /\ BothCalls("SocialList")
    /\ first.arg = Bool(TRUE)
    /\ rendered.arg = Undefined
    /\ first.result.type = "element"
    /\ Len(first.result.children) = 3
    /\ rendered.result.children = first.result.children
    /\ rendered.result.props.className # first.result.props.className

\* how often x occurs in the trees rooted at the given nodes
RECURSIVE OccurrencesIn(_, _)
OccurrencesIn(nodes, x) ==
    IF nodes = <<>> THEN 0
    ELSE (IF Head(nodes) = x THEN 1 ELSE 0)
            + OccurrencesIn(Head(nodes).children, x)
            + OccurrencesIn(Tail(nodes), x)

\* the position of the child with the given tag, 0 when there is none
TagPos(nodes, tag) ==
    IF \E i \in 1..Len(nodes) : nodes[i].tag = tag
    THEN CHOOSE i \in 1..Len(nodes) : nodes[i].tag = tag
    ELSE 0

\* C15: RootLayout renders the page content exactly once, unmodified, inside
\* the main region, which comes after Header and Separator and before
\* Footer; BackToTop comes after Footer; all of them are inside the theme
\* provider.
C15_LayoutShell ==
    rendered.op = "RootLayout" =>
        LET html == rendered.result
            body == html.children[1]
            provider == body.children[1]
            shell == provider.children
            main == shell[TagPos(shell, "main")]
        IN /\ html.tag = "html" /\ Len(html.children) = 1
           /\ body.tag = "body" /\ Len(body.children) = 1
           /\ provider.tag = "ProviderTheme"
           /\ OccurrencesIn(<<html>>, rendered.arg) = 1
           /\ OccurrencesIn(main.children, rendered.arg) = 1
           /\ \E i \in 1..Len(main.children) : main.children[i].children[1] = rendered.arg
           /\ \A tag \in {"Header", "Separator", "main", "Footer", "BackToTop"} :
                  Cardinality({i \in 1..Len(shell) : shell[i].tag = tag}) = 1
           /\ TagPos(shell, "Header") < TagPos(shell, "Separator")
           /\ TagPos(shell, "Separator") < TagPos(shell, "main")
           /\ TagPos(shell, "main") < TagPos(shell, "Footer")
           /\ TagPos(shell, "Footer") < TagPos(shell, "BackToTop")

C15_Witness ==
    /\ rendered.op = "RootLayout"
    /\ rendered.arg = Leaf("BlogPage")
    /\ OccurrencesIn(<<rendered.result>>, Leaf("BlogPage")) = 1
    /\ OccurrencesIn(<<rendered.result>>, Leaf("Footer")) = 1

\* C17: with the shipped configuration SocialList renders exactly three
\* entries, in this order: the mailto link for email, the link to the github
\* URL, the link to the linkedin URL; twitter, facebook, instagram and
\* youtube get no entry.
C17_ShippedSocialList ==
    (rendered.op = "SocialList" /\ siteData = blogConfig) =>
        /\ rendered.result.type = "element"
        /\ RenderedKeys = <<"email", "github", "linkedin">>
        /\ HrefAt(1) = Str("mailto:vinigurskiferraz@gmail.com")
        /\ HrefAt(2) = Str("https://github.com/viniciusf-dev")
        /\ HrefAt(3) = Str("https://www.linkedin.com/in/viniciusgferraz/")
        /\ \A k \in {"twitter", "facebook", "instagram", "youtube"} : EntriesOf(k) = {}

C17_Witness ==
    /\ rendered.op = "SocialList"
    /\ siteData = blogConfig
    /\ Len(Entries) = 3
    /\ HrefAt(2) = Str("https://github.com/viniciusf-dev")

\* a value carries the field k
HasField(v, k) == v.type = "object" /\ HasKey(v, k)

\* C18: whatever the input, the result of getStatus carries both a variant
\* and a text field or neither of them, never exactly one.
C18_BothFieldsOrNeither ==
    rendered.op = "getStatus" =>
        (HasField(rendered.result, "variant") <=> HasField(rendered.result, "text"))

C18_Witness ==
    /\ rendered.op = "getStatus"
    /\ rendered.arg = Str("offline")
    /\ HasField(rendered.result, "variant")
    /\ HasField(rendered.result, "text")

\* upper-casing, letter by letter
LowerLetters ==
    <<"a", "b", "c", "d", "e", "f", "g", "h", "i", "j", "k", "l", "m",
      "n", "o", "p", "q", "r", "s", "t", "u", "v", "w", "x", "y", "z">>

UpperLetters ==
    <<"A", "B", "C", "D", "E", "F", "G", "H", "I", "J", "K", "L", "M",
      "N", "O", "P", "Q", "R", "S", "T", "U", "V", "W", "X", "Y", "Z">>

UpperLetter(c) ==
    IF \E i \in 1..Len(LowerLetters) : LowerLetters[i] = c
    THEN UpperLetters[CHOOSE i \in 1..Len(LowerLetters) : LowerLetters[i] = c]
    ELSE c

RECURSIVE Spell(_)
Spell(letters) == IF letters = <<>> THEN "" ELSE Head(letters) \o Spell(Tail(letters))

UpperCase(letters) == Spell([i \in 1..Len(letters) |-> UpperLetter(letters[i])])

\* the status values, letter by letter
StatusLetters ==
    {<<"a", "c", "t", "i", "v", "e">>, <<"d", "e", "v">>,
     <<"f", "i", "l", "e", "d">>, <<"o", "f", "f", "l", "i", "n", "e">>}

IsStatus(v) == v.type = "string" /\ v.val \in StatusEnum

\* C19: two calls of getStatus with distinct values of active, dev, filed,
\* offline return distinct variants and distinct texts, and the text of
\* each is the upper-case form of the status.
C19_InjectiveUpperCase ==
    /\ {Spell(letters) : letters \in StatusLetters} = StatusEnum
    /\ (rendered.op = "getStatus" /\ IsStatus(rendered.arg)) =>
          \A letters \in StatusLetters :
              rendered.arg = Str(Spell(letters)) =>
                  Get(rendered.result, "text") = Str(UpperCase(letters))
    /\ (/\ BothCalls("getStatus")
        /\ IsStatus(first.arg) /\ IsStatus(rendered.arg)
        /\ first.arg # rendered.arg)
          => /\ Get(first.result, "variant") # Get(rendered.result, "variant")
             /\ Get(first.result, "text") # Get(rendered.result, "text")
             /\ IsBadge(first.result) /\ IsBadge(rendered.result)

C19_Witness ==
    /\ BothCalls("getStatus")
    /\ first.arg = Str("dev") /\ rendered.arg = Str("filed")
    /\ Get(first.result, "text") = Str("DEV")
    /\ Get(rendered.result, "text") = Str("FILED")
    /\ Get(first.result, "variant") # Get(rendered.result, "variant")

\* C20: the metadata exported by the layout has the title and the
\* description of the configuration, and the html element RootLayout
\* renders has lang = en whatever the configuration's language is.
C20_MetadataAndLang ==
    /\ metadata.title = siteData.title
    /\ metadata.description = siteData.description
    /\ rendered.op = "RootLayout" =>
          /\ rendered.result.tag = "html"
          /\ rendered.result.props.lang = "en"

C20_Witness ==
    /\ rendered.op = "RootLayout"
    /\ siteData.language = "zh-CN"
    /\ rendered.result.props.lang = "en"
    /\ metadata = [title |-> "Notes", description |-> "Short notes"]

\* C21: the getStatus functions of the three versions of the configuration
\* file return the same result for every input: whichever version is
\* loaded, the result of a call is what each of the three returns for that
\* input.
C21_VersionsAgree ==
    rendered.op = "getStatus" =>
        /\ rendered.result = getStatus(rendered.arg)
        /\ rendered.result = getStatusPart001(rendered.arg)
        /\ rendered.result = getStatusPart002(rendered.arg)

C21_Witness ==
    /\ siteData = configPart002
    /\ rendered.op = "getStatus"
    /\ rendered.arg = Null
    /\ rendered.result = Mapping(<<>>)
    /\ rendered.result = getStatus(rendered.arg)

====
